---- MODULE Spec2Model ----
(***************************************************************************)
(* The events worker: GET /events/:id with lazy Stripe payment-link        *)
(* provisioning, and POST /api/guestbook.  Every await of the handler is   *)
(* one action: the outbound call completes with one of its outcomes and    *)
(* the handler runs on to its next await or to its response.               *)
(***************************************************************************)
EXTENDS Integers, Sequences, FiniteSets, TLC

\* ---------------------------------------------------------------- bounds
\* Requests served in one behaviour.
MaxRequests == 2
\* Rows of the Products table related to the event.
MaxTickets == 2
\* Outbound calls that fail in one behaviour.
MaxFaults == 1

\* Events in the Events database when the catalog is queried.
MaxEvents == 3
\* Results Notion puts in one page of a database query (100 at Notion).
PageSize == 2

\* Handler invocations that can be in flight at once.
Slots == {1, 2}
\* Worker isolates; each holds its own module-level paymentLinkCache.
Instances == {1, 2}

\* ----------------------------------------------------------------- links
\* '' / null / undefined: every falsy link value.
NoLink == <<>>
\* data.url of the payment link Stripe created with id n.
StripeURL(n) == <<"stripe", n>>
\* A link an editor put on the Event record ('Event Ticket Link').
EventPreLink == <<"notion", "event">>
\* A link an editor put on a ticket row ('Stripe Payment Link').
TicketOwnLink == <<"notion", "ticket">>

\* Rows of the Products table as getTicketsForEvent maps them.
TicketPool ==
  { [name |-> "Free", price |-> 0,  stripe_payment_link |-> NoLink],
    [name |-> "GA",   price |-> 10, stripe_payment_link |-> NoLink],
    [name |-> "VIP",  price |-> 25, stripe_payment_link |-> NoLink],
    [name |-> "Own",  price |-> 25, stripe_payment_link |-> TicketOwnLink] }

RECURSIVE SeqsUpTo(_, _)
SeqsUpTo(S, n) ==
  IF n = 0 THEN {<<>>}
  ELSE LET shorter == SeqsUpTo(S, n - 1)
       IN shorter \cup {Append(s, x) : s \in {q \in shorter : Len(q) = n - 1}, x \in S}

\* "GA" and "VIP" differ in nothing the worker looks at but their key, so of two
\* lists that differ by exchanging them only the one naming "GA" first is kept.
GAFirst(l) ==
  \A i \in 1..Len(l) :
    l[i].name = "VIP" => \E j \in 1..(i - 1) : l[j].name = "GA"

TicketLists == {l \in SeqsUpTo(TicketPool, MaxTickets) : GAFirst(l)}

VARIABLES
  notionTicketLink,   \* 'Event Ticket Link' of the Event record in Notion
  tickets,            \* the Products rows related to the event, in query order
  notionDb,           \* records written by the guestbook: guests, relations, comments
  stripe,             \* objects created at Stripe: products, prices, payment_links
  paymentLinkCache,   \* per instance: the Map of stripe.js
  req,                \* per request: the handler's position and locals
  started,            \* requests received so far
  faults,             \* outbound calls that failed so far
  returned,           \* history: per instance, the (key, url) pairs getOrCreate returned
  overlapped,         \* history: some request started while another was in flight
  writeBackDone       \* history: a PATCH of the Event's ticket link has succeeded

vars == <<notionTicketLink, tickets, notionDb, stripe, paymentLinkCache, req,
          started, faults, returned, overlapped, writeBackDone>>

\* ------------------------------------------------------- Map of stripe.js
EmptyMap == [k \in {} |-> NoLink]
MapHas(m, k) == k \in DOMAIN m
MapSet(m, k, v) == [x \in (DOMAIN m) \cup {k} |-> IF x = k THEN v ELSE m[x]]

\* cacheKey = `${event.id}_${event.productName}_${event.price}`; one event,
\* productName = `${event.name} - ${ticket.name}`.
CacheKey(t) == <<"e1", t.name, t.price>>

\* ---------------------------------------------------------------- request
NoResponse == [status |-> 0, page |-> "none", section |-> "none", offered |-> {}]
NoForm == [parsed |-> FALSE, name |-> FALSE, email |-> FALSE, eventId |-> FALSE,
           message |-> FALSE, redirect |-> FALSE]
NoEnv == [token |-> FALSE, peopleDb |-> FALSE, commentsDb |-> FALSE]

\* A path is the list of its segments: "/" is <<>>, "/events/" is <<"events", "">>.
NoPath == <<>>

\* A JavaScript undefined or null where a string is expected.
Undefined == "undefined"

\* page.properties['Image'] of a Notion page: whether the property is there,
\* its type, which of its keys hold a value (has), and the values.
NoImage ==
  [present |-> FALSE, type |-> "none", has |-> {}, url |-> Undefined,
   files |-> <<>>, rich_text |-> <<>>, text |-> Undefined]

\* A Stripe event handed to handleStripeWebhook, the customer that
\* getStripeCustomer returned (null: fetched is FALSE) and the handler's result.
NoHook ==
  [type |-> "none", metadata |-> FALSE, revenue_object |-> "none",
   attach_buyer |-> "none", customer |-> FALSE, session |-> "none"]
NoCustomer == [fetched |-> FALSE, email |-> FALSE, name |-> FALSE]
NoResult == [success |-> FALSE, message |-> "none"]

Idle ==
  [route |-> "none", pc |-> "idle", serial |-> 0, inst |-> 1,
   imageProperty |-> NoImage, image |-> "",
   hook |-> NoHook, customer |-> NoCustomer, result |-> NoResult,
   method |-> "none", path |-> NoPath,
   event_link |-> NoLink, tks |-> <<>>, idx |-> 0,
   ticketsWithLinks |-> <<>>, twlSet |-> FALSE,
   ticketLink |-> NoLink, isFreeEvent |-> FALSE,
   productId |-> <<>>, priceId |-> <<>>,
   form |-> NoForm, env |-> NoEnv, guest |-> "none",
   listed |-> 0, has_more |-> FALSE,
   startedAfterWriteBack |-> FALSE,
   log |-> <<>>, response |-> NoResponse]

Call(c, res, t, v) == [call |-> c, result |-> res, ticket |-> t, value |-> v]

InFlight(r) == req[r].pc \notin {"idle", "done"}

StripeCalls == {"product", "price", "payment_link"}

Init ==
  /\ notionTicketLink \in {NoLink, EventPreLink}
  /\ tickets \in TicketLists
  /\ notionDb = [guests |-> 0, attended |-> 0, comments |-> 0, revenue |-> {}]
  /\ stripe = [products |-> {}, prices |-> {}, payment_links |-> {}]
  /\ paymentLinkCache = [i \in Instances |-> EmptyMap]
  /\ req = [r \in Slots |-> Idle]
  /\ started = 0
  /\ faults = 0
  /\ returned = [i \in Instances |-> {}]
  /\ overlapped = FALSE
  /\ writeBackDone = FALSE

\* ------------------------------------------------------------- stripe.js
\* getOrCreateStripePaymentLink up to its first await: the cache, then the
\* Event's ticket link, then the ticket's own link; otherwise creation starts.
getOrCreateLookup_reserve(cache, key, ticket_link, stripe_payment_link) ==
  IF MapHas(cache, key)
    THEN [cache |-> cache, url |-> cache[key], create |-> FALSE]
  ELSE IF ticket_link # NoLink
    THEN [cache |-> MapSet(cache, key, ticket_link), url |-> ticket_link, create |-> FALSE]
  ELSE IF stripe_payment_link # NoLink
    THEN [cache |-> MapSet(cache, key, stripe_payment_link),
          url |-> stripe_payment_link, create |-> FALSE]
  ELSE [cache |-> MapSet(cache, key, <<"pending">>), url |-> NoLink, create |-> TRUE]

getOrCreateLookup_noEventLink(cache, key, ticket_link, stripe_payment_link) ==
  IF MapHas(cache, key)
    THEN [cache |-> cache, url |-> cache[key], create |-> FALSE]
  ELSE IF stripe_payment_link # NoLink
    THEN [cache |-> MapSet(cache, key, stripe_payment_link),
          url |-> stripe_payment_link, create |-> FALSE]
  ELSE [cache |-> cache, url |-> NoLink, create |-> TRUE]

getOrCreateLookup(cache, key, ticket_link, stripe_payment_link) ==
  IF MapHas(cache, key)
    THEN [cache |-> cache, url |-> cache[key], create |-> FALSE]
  ELSE IF ticket_link # NoLink
    THEN [cache |-> MapSet(cache, key, ticket_link), url |-> ticket_link, create |-> FALSE]
  ELSE IF stripe_payment_link # NoLink
    THEN [cache |-> MapSet(cache, key, stripe_payment_link),
          url |-> stripe_payment_link, create |-> FALSE]
  ELSE [cache |-> cache, url |-> NoLink, create |-> TRUE]

\* Where the creation sequence goes after the product response.
AfterProduct_ignoreError(result) == IF result = "throw" THEN "fail" ELSE "price"
AfterProduct(result) == IF result = "ok" THEN "price" ELSE "fail"

\* Where it goes after the price response.
AfterPrice(result) == IF result = "ok" THEN "payment_link" ELSE "fail"

\* What getOrCreateStripePaymentLink returns when a creation request failed.
CreationFailedReturn_fallback == EventPreLink
CreationFailedReturn == NoLink

\* paymentLinkCache.set(cacheKey, data.url) after the payment link was created.
StorePaymentLink_forget(cache, key, url) == cache
StorePaymentLink(cache, key, url) == MapSet(cache, key, url)

\* unit_amount = Math.round(price * 100)
CentsPerDollar == 100
UnitAmount(price) == price * CentsPerDollar

\* ------------------------------------------------------------ templates.js
LinksOffered(twl) ==
  {twl[i].ticket_link : i \in {j \in 1..Len(twl) :
                                 ~twl[j].isFree /\ twl[j].ticket_link # NoLink}}

renderTicketsSection_linkFirst(ticketLink, isFreeEvent, hasTickets, twl) ==
  IF ticketLink # NoLink /\ Len(twl) = 0
    THEN [section |-> "single", offered |-> {ticketLink}]
  ELSE IF isFreeEvent THEN [section |-> "free", offered |-> {}]
  ELSE IF Len(twl) > 0 THEN [section |-> "options", offered |-> LinksOffered(twl)]
  ELSE IF hasTickets THEN [section |-> "preparing", offered |-> {}]
  ELSE [section |-> "unavailable", offered |-> {}]

renderTicketsSection(ticketLink, isFreeEvent, hasTickets, twl) ==
  IF isFreeEvent THEN [section |-> "free", offered |-> {}]
  ELSE IF Len(twl) > 0 THEN [section |-> "options", offered |-> LinksOffered(twl)]
  ELSE IF ticketLink = NoLink
    THEN IF hasTickets THEN [section |-> "preparing", offered |-> {}]
         ELSE [section |-> "unavailable", offered |-> {}]
  ELSE [section |-> "single", offered |-> {ticketLink}]

\* ------------------------------------------------- the event page (fetch)
IsPriced(t) == t.price > 0

hasValidPricedTicket(tks) == \E i \in 1..Len(tks) : IsPriced(tks[i])

\* One element of ticketsWithLinks: the ticket (by its row) and what was added.
Entry(i, link, free) == [id |-> i, ticket_link |-> link, isFree |-> free]

\* ticketsWithLinks.find(t => t.ticket_link): its index, 0 when there is none.
FindFirstWithLink_last(twl) ==
  LET S == {i \in 1..Len(twl) : twl[i].ticket_link # NoLink}
  IN IF S = {} THEN 0 ELSE CHOOSE i \in S : \A j \in S : j <= i
FindFirstWithLink(twl) ==
  LET S == {i \in 1..Len(twl) : twl[i].ticket_link # NoLink}
  IN IF S = {} THEN 0 ELSE CHOOSE i \in S : \A j \in S : i <= j

\* The link sent in the PATCH of the Event record.
PatchValue_eventField(rq) == rq.event_link
PatchValue(rq) == rq.ticketLink

\* The response after the ticket handling: event.ticket_link = ticketLink,
\* hasTickets from debugInfo.tickets, ticketsWithLinks defaulted, page rendered.
RenderEventPage(rq) ==
  LET twl == IF rq.twlSet THEN rq.ticketsWithLinks ELSE <<>>
      sec == renderTicketsSection(rq.ticketLink, rq.isFreeEvent, Len(rq.tks) > 0, twl)
  IN [status |-> 200, page |-> "event", section |-> sec.section, offered |-> sec.offered]

DebugPage(st, title) == [status |-> st, page |-> title, section |-> "none", offered |-> {}]

\* The catch around the ticket handling: log, then go on to render the page.
CatchTicketError_errorPage(rq) ==
  [rq EXCEPT !.pc = "done", !.response = DebugPage(500, "Error fetching event")]
CatchTicketError(rq) == [rq EXCEPT !.pc = "done", !.response = RenderEventPage(rq)]

Respond(rq) == [rq EXCEPT !.pc = "done", !.response = RenderEventPage(rq)]

\* The for-loop over the tickets, run from ticket i until getOrCreate has to
\* await Stripe (pc "product") or the loop ends (pc "afterLoop").
RECURSIVE TicketLoop(_, _, _, _)
TicketLoop(ev_link, tks, i, st) ==
  IF i > Len(tks) THEN [st EXCEPT !.pc = "afterLoop", !.idx = i]
  ELSE
    LET t == tks[i] IN
    IF ~IsPriced(t)
      THEN TicketLoop(ev_link, tks, i + 1,
                      [st EXCEPT !.twl = Append(@, Entry(i, NoLink, TRUE))])
    ELSE IF t.stripe_payment_link # NoLink
      THEN TicketLoop(ev_link, tks, i + 1,
                      [st EXCEPT !.twl = Append(@, Entry(i, t.stripe_payment_link, FALSE))])
    ELSE
      LET g == getOrCreateLookup(st.cache, CacheKey(t), ev_link, t.stripe_payment_link) IN
      IF g.create
        THEN [st EXCEPT !.pc = "product", !.idx = i, !.cache = g.cache]
        ELSE TicketLoop(ev_link, tks, i + 1,
                        [st EXCEPT !.cache = g.cache,
                                   !.twl = Append(@, Entry(i, g.url, FALSE)),
                                   !.rets = @ \cup {<<CacheKey(t), g.url>>}])

\* The request after the loop state st: awaiting Stripe, awaiting the PATCH of
\* the Event (a ticket has a link), or responding.
AfterLoop(rq, st) ==
  LET rq1 == [rq EXCEPT !.idx = st.idx, !.ticketsWithLinks = st.twl] IN
  IF st.pc = "product" THEN [rq1 EXCEPT !.pc = "product"]
  ELSE
    LET first == FindFirstWithLink(st.twl)
        rq2 == [rq1 EXCEPT !.twlSet = TRUE]
    IN IF first # 0
         THEN [rq2 EXCEPT !.ticketLink = st.twl[first].ticket_link, !.pc = "patch"]
         ELSE Respond(rq2)

LoopFrom(rq, i, twl, cache, rets) ==
  TicketLoop(rq.event_link, rq.tks, i,
             [pc |-> "loop", idx |-> i, twl |-> twl, cache |-> cache, rets |-> rets])

\* ---------------------------------------------------------------- actions
Outcomes == {"ok", "error", "throw"}
Fault(result) == IF result = "ok" THEN 0 ELSE 1
MayFail(result) == result = "ok" \/ faults < MaxFaults

\* Computing the response and returning it is one synchronous run of the
\* handler: nothing else runs between a slot reaching "done" and Finish.
Quiet == \A s \in Slots : req[s].pc # "done"

\* Slots and instances are interchangeable: the lowest free one is taken.
LowestIdle(r) == req[r].pc = "idle" /\ \A s \in Slots : s < r => req[s].pc # "idle"
Touched(i) ==
  \/ paymentLinkCache[i] # EmptyMap
  \/ returned[i] # {}
  \/ \E s \in Slots : req[s].pc # "idle" /\ req[s].inst = i
MayUse(i) == IF i = 1 THEN TRUE ELSE Touched(i - 1)

CanStart(r, i) == Quiet /\ started < MaxRequests /\ LowestIdle(r) /\ MayUse(i)

\* The env argument of the worker with every binding set.
FullEnv == [token |-> TRUE, peopleDb |-> TRUE, commentsDb |-> TRUE]

EventPath == <<"events", "e1">>

\* The event-page handler at its first await, on instance i.
EventRequest(i) ==
  [Idle EXCEPT !.route = "event", !.pc = "getEvent", !.serial = started + 1,
               !.inst = i, !.method = "GET", !.path = EventPath, !.env = FullEnv,
               !.startedAfterWriteBack = writeBackDone]

\* GET /events/:id arrives at instance i; getEventFromNotion is awaited.
StartEvent(r, i) ==
  /\ CanStart(r, i)
  /\ req' = [req EXCEPT ![r] = EventRequest(i)]
  /\ started' = started + 1
  /\ overlapped' = (overlapped \/ \E o \in Slots : InFlight(o))
  /\ UNCHANGED <<notionTicketLink, tickets, notionDb, stripe, paymentLinkCache,
                 faults, returned, writeBackDone>>

\* What Notion answers to GET /v1/pages/:id: the page, the error object
\* object_not_found, another error object (unauthorized, rate_limited, ...),
\* or the fetch throws.
EventReadOutcomes == {"ok", "not_found", "error", "throw"}

\* getEventFromNotion and the handler's branches on its result: a body without
\* id is null and gives 404, an exception gives 500, a page goes on to the tickets.
AfterEventRead_ignoreNull(rq, result, link) ==
  IF result = "throw"
    THEN [rq EXCEPT !.pc = "done", !.response = DebugPage(500, "Error fetching event")]
    ELSE [rq EXCEPT !.event_link = link, !.ticketLink = link, !.pc = "getTickets"]

AfterEventRead(rq, result, link) ==
  CASE result = "ok" ->
         [rq EXCEPT !.event_link = link, !.ticketLink = link, !.pc = "getTickets"]
    [] result = "throw" ->
         [rq EXCEPT !.pc = "done", !.response = DebugPage(500, "Error fetching event")]
    [] OTHER ->
         [rq EXCEPT !.pc = "done", !.response = DebugPage(404, "Event Not Found")]

\* getEventFromNotion returns.
GetEventReturns(r, result) ==
  /\ Quiet
  /\ req[r].pc = "getEvent"
  /\ MayFail(result)
  /\ LET rq == [req[r] EXCEPT !.log = Append(@, Call("getEvent", result, 0, NoLink))] IN
     req' = [req EXCEPT ![r] = AfterEventRead(rq, result, notionTicketLink)]
  /\ faults' = faults + Fault(result)
  /\ UNCHANGED <<notionTicketLink, tickets, notionDb, stripe, paymentLinkCache,
                 started, returned, overlapped, writeBackDone>>

\* getTicketsForEvent returns: the rows, [] on an error object, or throws.
GetTicketsReturns(r, result) ==
  /\ Quiet
  /\ req[r].pc = "getTickets"
  /\ MayFail(result)
  /\ LET i == req[r].inst
         rq == [req[r] EXCEPT !.log = Append(@, Call("getTickets", result, 0, NoLink))]
         got == [rq EXCEPT !.tks = IF result = "ok" THEN tickets ELSE <<>>]
         st == LoopFrom(got, 1, <<>>, paymentLinkCache[i], returned[i])
     IN
     IF result = "throw"
       THEN /\ req' = [req EXCEPT ![r] = CatchTicketError(rq)]
            /\ UNCHANGED <<paymentLinkCache, returned>>
     ELSE IF Len(got.tks) = 0
       THEN /\ req' = [req EXCEPT ![r] = Respond(got)]
            /\ UNCHANGED <<paymentLinkCache, returned>>
     ELSE IF ~hasValidPricedTicket(got.tks)
       THEN /\ req' = [req EXCEPT ![r] = Respond([got EXCEPT !.isFreeEvent = TRUE])]
            /\ UNCHANGED <<paymentLinkCache, returned>>
     ELSE /\ req' = [req EXCEPT ![r] = AfterLoop(got, st)]
          /\ paymentLinkCache' = [paymentLinkCache EXCEPT ![i] = st.cache]
          /\ returned' = [returned EXCEPT ![i] = st.rets]
  /\ faults' = faults + Fault(result)
  /\ UNCHANGED <<notionTicketLink, tickets, notionDb, stripe, started, overlapped,
                 writeBackDone>>

\* if (!ticketLink) { ticketsWithLinks.push({ ...ticket, isFree: false }); continue; }
FailedEntry_skip(twl, i) == twl
FailedEntry(twl, i) == Append(twl, Entry(i, CreationFailedReturn, FALSE))

\* getOrCreate gave up on ticket idx: null is returned, the ticket is pushed
\* without a link and the loop goes on with the next ticket.
CreationFailed(r, rq) ==
  LET i == rq.inst
      st == LoopFrom(rq, rq.idx + 1, FailedEntry(rq.ticketsWithLinks, rq.idx),
                     paymentLinkCache[i], returned[i])
  IN /\ req' = [req EXCEPT ![r] = AfterLoop(rq, st)]
     /\ paymentLinkCache' = [paymentLinkCache EXCEPT ![i] = st.cache]
     /\ returned' = [returned EXCEPT ![i] = st.rets]

\* The id Stripe gives the object a request creates for its ticket idx.
NewId(rq) == <<rq.serial, rq.idx>>

\* POST /v1/products returns.
ProductReturns(r, result) ==
  /\ Quiet
  /\ req[r].pc = "product"
  /\ MayFail(result)
  /\ LET rq == [req[r] EXCEPT !.log = Append(@, Call("product", result, req[r].idx, NoLink))]
         t == rq.tks[rq.idx]
     IN
     /\ stripe' = IF result = "ok"
                    THEN [stripe EXCEPT !.products =
                            @ \cup {[id |-> NewId(rq), name |-> t.name]}]
                    ELSE stripe
     /\ IF AfterProduct(result) = "price"
          THEN /\ req' = [req EXCEPT ![r] = [rq EXCEPT !.pc = "price",
                            !.productId = IF result = "ok" THEN NewId(rq) ELSE <<>>]]
               /\ UNCHANGED <<paymentLinkCache, returned>>
          ELSE CreationFailed(r, rq)
  /\ faults' = faults + Fault(result)
  /\ UNCHANGED <<notionTicketLink, tickets, notionDb, started, overlapped, writeBackDone>>

\* POST /v1/prices returns.
PriceReturns(r, result) ==
  /\ Quiet
  /\ req[r].pc = "price"
  /\ MayFail(result)
  /\ LET rq == [req[r] EXCEPT !.log = Append(@, Call("price", result, req[r].idx, NoLink))]
         t == rq.tks[rq.idx]
     IN
     /\ stripe' = IF result = "ok"
                    THEN [stripe EXCEPT !.prices =
                            @ \cup {[id |-> NewId(rq), product |-> rq.productId,
                                     unit_amount |-> UnitAmount(t.price)]}]
                    ELSE stripe
     /\ IF AfterPrice(result) = "payment_link"
          THEN /\ req' = [req EXCEPT ![r] = [rq EXCEPT !.pc = "payment_link",
                            !.priceId = IF result = "ok" THEN NewId(rq) ELSE <<>>]]
               /\ UNCHANGED <<paymentLinkCache, returned>>
          ELSE CreationFailed(r, rq)
  /\ faults' = faults + Fault(result)
  /\ UNCHANGED <<notionTicketLink, tickets, notionDb, started, overlapped, writeBackDone>>

\* POST /v1/payment_links returns: on success the link is cached and returned,
\* the ticket is pushed with it and the loop goes on.
PaymentLinkReturns(r, result) ==
  /\ Quiet
  /\ req[r].pc = "payment_link"
  /\ MayFail(result)
  /\ LET i == req[r].inst
         t == req[r].tks[req[r].idx]
         url == StripeURL(NewId(req[r]))
         rq == [req[r] EXCEPT !.log = Append(@, Call("payment_link", result, req[r].idx,
                                              IF result = "ok" THEN url ELSE NoLink))]
         st == LoopFrom(rq, rq.idx + 1,
                        Append(rq.ticketsWithLinks, Entry(rq.idx, url, FALSE)),
                        StorePaymentLink(paymentLinkCache[i], CacheKey(t), url),
                        returned[i] \cup {<<CacheKey(t), url>>})
     IN
     IF result = "ok"
       THEN /\ stripe' = [stripe EXCEPT !.payment_links =
                            @ \cup {[id |-> NewId(rq), price |-> rq.priceId]}]
            /\ req' = [req EXCEPT ![r] = AfterLoop(rq, st)]
            /\ paymentLinkCache' = [paymentLinkCache EXCEPT ![i] = st.cache]
            /\ returned' = [returned EXCEPT ![i] = st.rets]
       ELSE /\ stripe' = stripe
            /\ CreationFailed(r, rq)
  /\ faults' = faults + Fault(result)
  /\ UNCHANGED <<notionTicketLink, tickets, notionDb, started, overlapped, writeBackDone>>

\* updateEventTicketLink returns: Notion stored the link ("ok"), answered with
\* an error the worker never reads ("error"), or the fetch threw.
PatchReturns(r, result) ==
  /\ Quiet
  /\ req[r].pc = "patch"
  /\ MayFail(result)
  /\ LET rq == [req[r] EXCEPT !.log = Append(@, Call("patch", result, 0, PatchValue(req[r])))] IN
     req' = [req EXCEPT ![r] = IF result = "throw" THEN CatchTicketError(rq) ELSE Respond(rq)]
  /\ notionTicketLink' = IF result = "ok" THEN PatchValue(req[r]) ELSE notionTicketLink
  /\ writeBackDone' = (writeBackDone \/ result = "ok")
  /\ faults' = faults + Fault(result)
  /\ UNCHANGED <<tickets, notionDb, stripe, paymentLinkCache, started, returned, overlapped>>

\* The response is returned and the invocation ends.
Finish(r) ==
  /\ req[r].pc = "done"
  /\ req' = [req EXCEPT ![r] = Idle]
  /\ UNCHANGED <<notionTicketLink, tickets, notionDb, stripe, paymentLinkCache,
                 started, faults, returned, overlapped, writeBackDone>>

\* ------------------------------------------------- POST /api/guestbook
\* A submitted form: which fields are present and non-empty, whether the body
\* parsed as form data, and whether the URL carries ?redirect=.
Forms ==
  {f \in [parsed : BOOLEAN, name : BOOLEAN, email : BOOLEAN, eventId : BOOLEAN,
          message : BOOLEAN, redirect : BOOLEAN] :
     ~f.parsed => (~f.name /\ ~f.email /\ ~f.eventId /\ ~f.message)}

\* The env argument of fetch: which bindings are set.
Envs == [token : BOOLEAN, peopleDb : BOOLEAN, commentsDb : BOOLEAN]

\* !guestData.name || !guestData.email || !guestData.eventId
MissingRequired_noEventId(form) == ~form.name \/ ~form.email
MissingRequired(form) == ~form.name \/ ~form.email \/ ~form.eventId

\* An exception left the handler: no Response was produced.
Uncaught == [status |-> 0, page |-> "exception", section |-> "none", offered |-> {}]

Redirect(target) == [status |-> 303, page |-> target, section |-> "none", offered |-> {}]

\* The handling of notionResponse after the writes, and the redirect.
GuestbookResponse_redirectOnError(rq) ==
  [rq EXCEPT !.pc = "done", !.response =
     IF rq.form.redirect THEN Redirect("?redirect=")
     ELSE Redirect("/events/:id?guestbook=thanks")]

GuestbookResponse(rq) ==
  [rq EXCEPT !.pc = "done", !.response =
     CASE rq.guest = "error_schema" -> Redirect("/events/:id?guestbook=error&reason=schema")
       [] rq.guest = "error_other" -> DebugPage(500, "Notion API Error (Guestbook)")
       [] OTHER -> IF rq.form.redirect THEN Redirect("?redirect=")
                   ELSE Redirect("/events/:id?guestbook=thanks")]

\* After the attendance update: the comment, when there is a message.  Without
\* a comments database id addCommentToNotion throws before its fetch.
AfterAttended_onlyIfPatched(rq) ==
  IF rq.form.message /\ rq.guest = "created" /\ rq.log[Len(rq.log)].result = "ok"
    THEN IF rq.env.commentsDb THEN [rq EXCEPT !.pc = "addComment"]
         ELSE GuestbookResponse(rq)
    ELSE GuestbookResponse(rq)

AfterAttended(rq) ==
  IF rq.form.message /\ rq.guest = "created"
    THEN IF rq.env.commentsDb THEN [rq EXCEPT !.pc = "addComment"]
         ELSE GuestbookResponse(rq)
    ELSE GuestbookResponse(rq)

\* try { await updateEventsAttended(...) } catch { log }: whatever the patch
\* did, the handler goes on to the comment.
AfterPatchAttempt_rethrow(rq, result) ==
  IF result = "throw" THEN [rq EXCEPT !.pc = "done", !.response = Uncaught]
  ELSE AfterAttended(rq)
AfterPatchAttempt(rq, result) == AfterAttended(rq)

\* try { await addCommentToNotion(...) } catch { log }: whatever the comment
\* creation did, the handler goes on to its response.
AfterCommentAttempt_rethrow(rq, result) ==
  IF result = "throw" THEN [rq EXCEPT !.pc = "done", !.response = Uncaught]
  ELSE GuestbookResponse(rq)
AfterCommentAttempt(rq, result) == GuestbookResponse(rq)

\* POST /api/guestbook arrives: the form is read and validated, the
\* configuration checked, and addGuestToNotion is awaited.
GuestbookPath == <<"api", "guestbook">>

\* The guestbook handler up to its first await or its early response.
GuestbookRequest(form, env) ==
  LET rq == [Idle EXCEPT !.route = "guestbook", !.serial = started + 1,
                         !.method = "POST", !.path = GuestbookPath,
                         !.form = form, !.env = env]
  IN IF ~form.parsed
       THEN [rq EXCEPT !.pc = "done", !.response = DebugPage(500, "Form Data Error")]
     ELSE IF MissingRequired(form)
       THEN [rq EXCEPT !.pc = "done",
                       !.response = DebugPage(400, "Missing Required Fields")]
     ELSE IF ~env.peopleDb
       THEN [rq EXCEPT !.pc = "done", !.response = DebugPage(500, "Configuration Error")]
     ELSE IF ~env.token
       THEN [rq EXCEPT !.pc = "done", !.response = Uncaught]
     ELSE [rq EXCEPT !.pc = "addGuest"]

StartGuestbook(r, form, env) ==
  /\ CanStart(r, 1)
  /\ req' = [req EXCEPT ![r] = GuestbookRequest(form, env)]
  /\ started' = started + 1
  /\ overlapped' = (overlapped \/ \E o \in Slots : InFlight(o))
  /\ UNCHANGED <<notionTicketLink, tickets, notionDb, stripe, paymentLinkCache,
                 faults, returned, writeBackDone>>

GuestOutcomes == {"created", "error_schema", "error_other", "no_id", "throw"}

\* The handler after addGuestToNotion returned: the relation patch is awaited
\* when the response carries an id (if (notionResponse.id)).
AfterGuest_always(rq) == [rq EXCEPT !.pc = "updateAttended"]
AfterGuest(rq) ==
  IF rq.guest = "created" THEN [rq EXCEPT !.pc = "updateAttended"] ELSE AfterAttended(rq)

\* addGuestToNotion returns the response body, or rethrows.
AddGuestReturns(r, result) ==
  /\ Quiet
  /\ req[r].pc = "addGuest"
  /\ result = "created" \/ faults < MaxFaults
  /\ LET rq == [req[r] EXCEPT !.log = Append(@, Call("addGuest", result, 0, NoLink)),
                              !.guest = result]
     IN req' = [req EXCEPT ![r] =
          IF result = "throw" THEN [rq EXCEPT !.pc = "done", !.response = Uncaught]
          ELSE AfterGuest(rq)]
  /\ notionDb' = IF result = "created" THEN [notionDb EXCEPT !.guests = @ + 1] ELSE notionDb
  /\ faults' = faults + (IF result = "created" THEN 0 ELSE 1)
  /\ UNCHANGED <<notionTicketLink, tickets, stripe, paymentLinkCache, started,
                 returned, overlapped, writeBackDone>>

\* updateEventsAttended returns or throws; either way the handler goes on.
UpdateAttendedReturns(r, result) ==
  /\ Quiet
  /\ req[r].pc = "updateAttended"
  /\ MayFail(result)
  /\ LET rq == [req[r] EXCEPT !.log = Append(@, Call("updateAttended", result, 0, NoLink))]
     IN req' = [req EXCEPT ![r] = AfterPatchAttempt(rq, result)]
  /\ notionDb' = IF result = "ok" THEN [notionDb EXCEPT !.attended = @ + 1] ELSE notionDb
  /\ faults' = faults + Fault(result)
  /\ UNCHANGED <<notionTicketLink, tickets, stripe, paymentLinkCache, started,
                 returned, overlapped, writeBackDone>>

\* addCommentToNotion returns or throws; either way the handler goes on.
AddCommentReturns(r, result) ==
  /\ Quiet
  /\ req[r].pc = "addComment"
  /\ MayFail(result)
  /\ LET rq == [req[r] EXCEPT !.log = Append(@, Call("addComment", result, 0, NoLink))]
     IN req' = [req EXCEPT ![r] = AfterCommentAttempt(rq, result)]
  /\ notionDb' = IF result = "ok" THEN [notionDb EXCEPT !.comments = @ + 1] ELSE notionDb
  /\ faults' = faults + Fault(result)
  /\ UNCHANGED <<notionTicketLink, tickets, stripe, paymentLinkCache, started,
                 returned, overlapped, writeBackDone>>

Next ==
  \/ \E r \in Slots, i \in Instances : StartEvent(r, i)
  \/ \E r \in Slots, result \in EventReadOutcomes : GetEventReturns(r, result)
  \/ \E r \in Slots, result \in Outcomes : GetTicketsReturns(r, result)
  \/ \E r \in Slots, result \in Outcomes : ProductReturns(r, result)
  \/ \E r \in Slots, result \in Outcomes : PriceReturns(r, result)
  \/ \E r \in Slots, result \in Outcomes : PaymentLinkReturns(r, result)
  \/ \E r \in Slots, result \in Outcomes : PatchReturns(r, result)
  \/ \E r \in Slots : Finish(r)

Spec == Init /\ [][Next]_vars

\* The guestbook writer on its own: it shares no state with the event page.
InitGuestbook == Init /\ notionTicketLink = NoLink /\ tickets = <<>>

NextGuestbook ==
  \/ \E r \in Slots, form \in Forms, env \in Envs : StartGuestbook(r, form, env)
  \/ \E r \in Slots, result \in GuestOutcomes : AddGuestReturns(r, result)
  \/ \E r \in Slots, result \in Outcomes : UpdateAttendedReturns(r, result)
  \/ \E r \in Slots, result \in Outcomes : AddCommentReturns(r, result)
  \/ \E r \in Slots : Finish(r)

SpecGuestbook == InitGuestbook /\ [][NextGuestbook]_vars

\* ---------------------------------------------------- GET / and /events
Min(a, b) == IF a < b THEN a ELSE b

\* The catalog handler at its only await.
CatalogRequest ==
  [Idle EXCEPT !.route = "catalog", !.pc = "getAllEvents", !.serial = started + 1,
               !.method = "GET", !.path = <<"events">>, !.env = FullEnv]

\* The result page Notion returns for a query starting after `after` results,
\* when the database holds `total` events.
QueryPage(total, after) ==
  [results |-> Min(IF total > after THEN total - after ELSE 0, PageSize),
   has_more |-> total > after + PageSize]

\* getAllEventsFromNotion after its query returned, and the handler's response:
\* data.results (or []) is mapped and returned, has_more and next_cursor are
\* never read; no events gives the 'No events found' page, an exception the
\* 'Error fetching events' page, both with the default status.
AfterEventsPage_followCursor(rq, result, page) ==
  IF result = "throw"
    THEN [rq EXCEPT !.pc = "done", !.response = DebugPage(200, "Error fetching events")]
  ELSE IF result = "ok" /\ page.has_more
    THEN [rq EXCEPT !.listed = @ + page.results, !.has_more = TRUE]
  ELSE IF result = "error" \/ rq.listed + page.results = 0
    THEN [rq EXCEPT !.pc = "done", !.response = DebugPage(200, "No events found")]
  ELSE [rq EXCEPT !.pc = "done", !.listed = @ + page.results, !.has_more = FALSE,
                  !.response = [status |-> 200, page |-> "catalog",
                                section |-> "none", offered |-> {}]]

AfterEventsPage(rq, result, page) ==
  IF result = "throw"
    THEN [rq EXCEPT !.pc = "done", !.response = DebugPage(200, "Error fetching events")]
  ELSE IF result = "error" \/ page.results = 0
    THEN [rq EXCEPT !.pc = "done", !.response = DebugPage(200, "No events found")]
  ELSE [rq EXCEPT !.pc = "done", !.listed = page.results, !.has_more = page.has_more,
                  !.response = [status |-> 200, page |-> "catalog",
                                section |-> "none", offered |-> {}]]

\* POST /v1/databases/:id/query returns, the database holding `total` events.
CatalogReturns(r, result, total) ==
  /\ Quiet
  /\ req[r].pc = "getAllEvents"
  /\ MayFail(result)
  /\ LET rq == [req[r] EXCEPT !.log = Append(@, Call("getAllEvents", result, 0, NoLink))]
     IN req' = [req EXCEPT ![r] = AfterEventsPage(rq, result, QueryPage(total, req[r].listed))]
  /\ faults' = faults + Fault(result)
  /\ UNCHANGED <<notionTicketLink, tickets, notionDb, stripe, paymentLinkCache, started,
                 returned, overlapped, writeBackDone>>

\* ------------------------------------------------------------- the router
Methods == {"GET", "POST"}
Paths == {NoPath, <<"events">>, <<"events", "">>, EventPath, GuestbookPath, <<"other">>}

\* url.pathname.match(/^\/events\/(.+)$/): "/events/" followed by something.
EventMatch(path) ==
  /\ Len(path) >= 2
  /\ path[1] = "events"
  /\ ~(Len(path) = 2 /\ path[2] = "")

\* The handler a request is given to: the path tests in the order of fetch.
Route_guestbookAnyMethod(method, path) ==
  IF path \in {NoPath, <<"events">>} THEN "catalog"
  ELSE IF path = GuestbookPath THEN "guestbook"
  ELSE IF EventMatch(path) THEN "event"
  ELSE "notfound"

Route(method, path) ==
  IF path \in {NoPath, <<"events">>} THEN "catalog"
  ELSE IF path = GuestbookPath /\ method = "POST" THEN "guestbook"
  ELSE IF EventMatch(path) THEN "event"
  ELSE "notfound"

\* new Response('Not found', { status: 404 })
NotFound == [status |-> 404, page |-> "Not found", section |-> "none", offered |-> {}]

\* fetch from its entry to the first await of the handler the request goes to.
Dispatch(method, path, form, env) ==
  LET route == Route(method, path)
      rq == CASE route = "catalog" -> CatalogRequest
              [] route = "guestbook" -> GuestbookRequest(form, env)
              [] route = "event" -> EventRequest(1)
              [] OTHER -> [Idle EXCEPT !.route = "notfound", !.serial = started + 1,
                                       !.pc = "done", !.response = NotFound]
  IN [rq EXCEPT !.method = method, !.path = path]

\* The submissions and the configuration the router is exercised with.
RouterForms ==
  {[parsed |-> TRUE, name |-> TRUE, email |-> TRUE, eventId |-> TRUE,
    message |-> TRUE, redirect |-> FALSE],
   [parsed |-> TRUE, name |-> FALSE, email |-> TRUE, eventId |-> TRUE,
    message |-> FALSE, redirect |-> FALSE]}

\* A request arrives.
Receive(r, method, path, form) ==
  /\ CanStart(r, 1)
  /\ req' = [req EXCEPT ![r] = Dispatch(method, path, form, FullEnv)]
  /\ started' = started + 1
  /\ overlapped' = (overlapped \/ \E o \in Slots : InFlight(o))
  /\ UNCHANGED <<notionTicketLink, tickets, notionDb, stripe, paymentLinkCache,
                 faults, returned, writeBackDone>>

\* All routes of the worker, for an event without tickets.
InitRouter == Init /\ notionTicketLink = NoLink /\ tickets = <<>>

NextRouter ==
  \/ \E r \in Slots, method \in Methods, path \in Paths, form \in RouterForms :
       Receive(r, method, path, form)
  \/ \E r \in Slots, result \in Outcomes, total \in 0..MaxEvents :
       CatalogReturns(r, result, total)
  \/ \E r \in Slots, result \in EventReadOutcomes : GetEventReturns(r, result)
  \/ \E r \in Slots, result \in Outcomes : GetTicketsReturns(r, result)
  \/ \E r \in Slots, result \in GuestOutcomes : AddGuestReturns(r, result)
  \/ \E r \in Slots, result \in Outcomes : UpdateAttendedReturns(r, result)
  \/ \E r \in Slots, result \in Outcomes : AddCommentReturns(r, result)
  \/ \E r \in Slots : Finish(r)

SpecRouter == InitRouter /\ [][NextRouter]_vars

\* ----------------------------------------------------------- debug pages
\* The configured secrets, as strings of characters.
NotionToken == <<"n", "t", "n", "_", "a", "b", "c", "d", "e">>
StripeSecretKey == <<"s", "k", "_", "v", "w", "x", "y", "z">>

\* s.substring(0, n) and s.slice(-n)
Substring0(s, n) == SubSeq(s, 1, Min(n, Len(s)))
SliceLast(s, n) == SubSeq(s, IF Len(s) > n THEN Len(s) - n + 1 ELSE 1, Len(s))

\* 'Token provided (first 5 chars): ' + env.NOTION_TOKEN.substring(0, 5)
TokenHead(env) == IF env.token THEN {Substring0(NotionToken, 5)} ELSE {}
\* { ...env, NOTION_TOKEN: env.NOTION_TOKEN ? '***' + env.NOTION_TOKEN.slice(-4) : undefined }:
\* the token masked, every other binding (STRIPE_SECRET_KEY among them) as it is.
EnvDump(env) ==
  (IF env.token THEN {<<"*", "*", "*">> \o SliceLast(NotionToken, 4)} ELSE {})
    \cup {StripeSecretKey}

\* The secret-derived values renderDebugPage prints, by the page's call site.
DebugDetails(title, env) ==
  CASE title \in {"No events found", "Error fetching events",
                  "Event Not Found", "Error fetching event"} -> TokenHead(env)
    [] title \in {"Configuration Error", "Notion API Error",
                  "Notion API Error (Guestbook)"} -> EnvDump(env)
    [] OTHER -> {}

\* ------------------------------------------- the Image property (notion.js)
\* What JavaScript takes as false among the values a string property holds.
Truthy(v) == v \notin {Undefined, ""}

\* A failed dereference of undefined, which the extraction has no catch for.
TypeError == "TypeError"

\* files[i] of a 'files' property: an external file carries external.url, a
\* file hosted by Notion file.url.
Files ==
  [type : {"external", "file"}, external_url : {Undefined, "https://ext"},
   file_url : {Undefined, "https://hosted"}]

MaxFiles == 2

ImageProperties ==
  LET p == [NoImage EXCEPT !.present = TRUE] IN
  {NoImage, [p EXCEPT !.type = "number"]}
  \cup {[p EXCEPT !.type = "url", !.url = u] : u \in {Undefined, "", "https://url"}}
  \cup {[p EXCEPT !.type = "files"]}
  \cup {[p EXCEPT !.type = "files", !.has = {"files"}, !.files = f] :
          f \in SeqsUpTo(Files, MaxFiles)}
  \cup {[p EXCEPT !.type = "rich_text"]}
  \cup {[p EXCEPT !.type = "rich_text", !.has = {"rich_text"}, !.rich_text = t] :
          t \in SeqsUpTo({[plain_text |-> x] : x \in {"", "https://rich"}}, 1)}
  \cup {[p EXCEPT !.type = "text"]}
  \cup {[p EXCEPT !.type = "text", !.has = {"text"}, !.text = c] :
          c \in {Undefined, "", "https://text"}}

\* The first file of a non-empty files list.
FirstFileUrl(files) ==
  IF Len(files) = 0 THEN TypeError
  ELSE LET file == files[1] IN
       IF file.type = "external" /\ Truthy(file.external_url) THEN file.external_url
       ELSE IF file.type = "file" /\ Truthy(file.file_url) THEN file.file_url
       ELSE ""

\* imageUrl of getEventFromNotion.
ImageUrl_noLengthCheck(imageProperty) ==
  IF ~imageProperty.present THEN ""
  ELSE IF imageProperty.type = "url" /\ Truthy(imageProperty.url)
    THEN imageProperty.url
  ELSE IF imageProperty.type = "files" /\ "files" \in imageProperty.has
    THEN FirstFileUrl(imageProperty.files)
  ELSE IF /\ imageProperty.type = "rich_text" /\ "rich_text" \in imageProperty.has
          /\ Len(imageProperty.rich_text) > 0
    THEN IF Truthy(imageProperty.rich_text[1].plain_text)
           THEN imageProperty.rich_text[1].plain_text ELSE ""
  ELSE IF imageProperty.type = "text" /\ "text" \in imageProperty.has
    THEN IF Truthy(imageProperty.text) THEN imageProperty.text ELSE ""
  ELSE ""
ImageUrl(imageProperty) ==
  IF ~imageProperty.present THEN ""
  ELSE IF imageProperty.type = "url" /\ Truthy(imageProperty.url)
    THEN imageProperty.url
  ELSE IF /\ imageProperty.type = "files" /\ "files" \in imageProperty.has
          /\ Len(imageProperty.files) > 0
    THEN FirstFileUrl(imageProperty.files)
  ELSE IF /\ imageProperty.type = "rich_text" /\ "rich_text" \in imageProperty.has
          /\ Len(imageProperty.rich_text) > 0
    THEN IF Truthy(imageProperty.rich_text[1].plain_text)
           THEN imageProperty.rich_text[1].plain_text ELSE ""
  ELSE IF imageProperty.type = "text" /\ "text" \in imageProperty.has
    THEN IF Truthy(imageProperty.text) THEN imageProperty.text ELSE ""
  ELSE ""

\* imageUrl of the map callback of getAllEventsFromNotion.
ListImageUrl(imageProperty) ==
  IF ~imageProperty.present THEN ""
  ELSE IF imageProperty.type = "url" /\ Truthy(imageProperty.url)
    THEN imageProperty.url
  ELSE IF /\ imageProperty.type = "files" /\ "files" \in imageProperty.has
          /\ Len(imageProperty.files) > 0
    THEN FirstFileUrl(imageProperty.files)
  ELSE IF /\ imageProperty.type = "rich_text" /\ "rich_text" \in imageProperty.has
          /\ Len(imageProperty.rich_text) > 0
    THEN IF Truthy(imageProperty.rich_text[1].plain_text)
           THEN imageProperty.rich_text[1].plain_text ELSE ""
  ELSE IF imageProperty.type = "text" /\ "text" \in imageProperty.has
    THEN IF Truthy(imageProperty.text) THEN imageProperty.text ELSE ""
  ELSE ""

Readers == {"getEventFromNotion", "getAllEventsFromNotion"}

\* A reader builds the event object of a page whose Image property is
\* imageProperty.
ExtractImage(r, reader, imageProperty) ==
  /\ CanStart(r, 1)
  /\ req' = [req EXCEPT ![r] =
       [Idle EXCEPT !.route = reader, !.pc = "done", !.serial = started + 1,
                    !.imageProperty = imageProperty,
                    !.image = IF reader = "getEventFromNotion"
                                THEN ImageUrl(imageProperty)
                                ELSE ListImageUrl(imageProperty)]]
  /\ started' = started + 1
  /\ UNCHANGED <<notionTicketLink, tickets, notionDb, stripe, paymentLinkCache,
                 faults, returned, overlapped, writeBackDone>>

NextImage ==
  \/ \E r \in Slots, reader \in Readers, imageProperty \in ImageProperties :
       ExtractImage(r, reader, imageProperty)
  \/ \E r \in Slots : Finish(r)

SpecImage == InitRouter /\ [][NextImage]_vars

\* ------------------------------------------------------ stripe-webhook.js
CompletedType == "checkout.session.completed"

Sessions == {"cs_1", "cs_2"}

\* The events Stripe delivers: a checkout session (its id, whether it names a
\* customer, its metadata flags as the payment link set them) or another type.
WebhookEvents ==
  {[NoHook EXCEPT !.type = "payment_intent.succeeded"]}
  \cup {[NoHook EXCEPT !.type = CompletedType, !.session = s, !.customer = c] :
          s \in Sessions, c \in BOOLEAN}
  \cup [type : {CompletedType}, metadata : {TRUE},
        revenue_object : {"true", "false"}, attach_buyer : {"true", "false"},
        customer : BOOLEAN, session : Sessions]

\* The customer object Stripe returns: whether it carries an email and a name.
Customers == [fetched : {TRUE}, email : BOOLEAN, name : BOOLEAN]

\* if (!session.metadata || session.metadata.revenue_object !== 'true') return
WantsRevenue_anyMetadata(ev) == ev.metadata
WantsRevenue(ev) == ev.metadata /\ ev.revenue_object = "true"

\* handleStripeWebhook up to its first await.
WebhookRequest(ev) ==
  LET rq == [Idle EXCEPT !.route = "webhook", !.serial = started + 1, !.hook = ev]
  IN IF ev.type # CompletedType
       THEN [rq EXCEPT !.pc = "done",
                       !.result = [success |-> TRUE, message |-> "Event type ignored"]]
     ELSE IF ~WantsRevenue(ev)
       THEN [rq EXCEPT !.pc = "done",
                       !.result = [success |-> TRUE, message |-> "No revenue object requested"]]
     ELSE IF ~ev.customer THEN [rq EXCEPT !.pc = "createRevenue"]
     ELSE [rq EXCEPT !.pc = "getCustomer"]

DeliverWebhook(r, ev) ==
  /\ CanStart(r, 1)
  /\ req' = [req EXCEPT ![r] = WebhookRequest(ev)]
  /\ started' = started + 1
  /\ overlapped' = (overlapped \/ \E o \in Slots : InFlight(o))
  /\ UNCHANGED <<notionTicketLink, tickets, notionDb, stripe, paymentLinkCache,
                 faults, returned, writeBackDone>>

\* getStripeCustomer: the customer, or null for an error object or an exception.
\* The handler goes on to createRevenueObject with whatever it got.
AfterCustomer_rethrow(rq, result, customer) ==
  IF result = "ok" THEN [rq EXCEPT !.pc = "createRevenue", !.customer = customer]
  ELSE [rq EXCEPT !.pc = "done", !.result = [success |-> FALSE, message |-> "error"]]
AfterCustomer(rq, result, customer) ==
  [rq EXCEPT !.pc = "createRevenue",
             !.customer = IF result = "ok" THEN customer ELSE NoCustomer]

CustomerReturns(r, result, customer) ==
  /\ Quiet
  /\ req[r].pc = "getCustomer"
  /\ MayFail(result)
  /\ LET rq == [req[r] EXCEPT !.log = Append(@, Call("getCustomer", result, 0, NoLink))]
     IN req' = [req EXCEPT ![r] = AfterCustomer(rq, result, customer)]
  /\ faults' = faults + Fault(result)
  /\ UNCHANGED <<notionTicketLink, tickets, notionDb, stripe, paymentLinkCache, started,
                 returned, overlapped, writeBackDone>>

\* The buyer properties createRevenueObject adds to the Revenue record.
BuyerProperties(customer, ev) ==
  IF customer.fetched /\ ev.attach_buyer = "true"
    THEN (IF customer.email THEN {"Buyer"} ELSE {})
         \cup (IF customer.name THEN {"Buyer Name"} ELSE {})
    ELSE {}

\* The Revenue record notion.pages.create is asked for.
RevenueRecord(rq) ==
  [id |-> rq.serial, session |-> rq.hook.session,
   buyer |-> BuyerProperties(rq.customer, rq.hook)]

\* notion.pages.create returns the page, or the client throws and the catch of
\* handleStripeWebhook answers success: false.
RevenueReturns(r, result) ==
  /\ Quiet
  /\ req[r].pc = "createRevenue"
  /\ MayFail(result)
  /\ LET rq == [req[r] EXCEPT !.log = Append(@, Call("createRevenue", result, 0, NoLink))]
     IN req' = [req EXCEPT ![r] =
          [rq EXCEPT !.pc = "done", !.result =
             IF result = "ok"
               THEN [success |-> TRUE, message |-> "Revenue object created successfully"]
               ELSE [success |-> FALSE, message |-> "error"]]]
  /\ notionDb' = IF result = "ok"
                   THEN [notionDb EXCEPT !.revenue = @ \cup {RevenueRecord(req[r])}]
                   ELSE notionDb
  /\ faults' = faults + Fault(result)
  /\ UNCHANGED <<notionTicketLink, tickets, stripe, paymentLinkCache, started,
                 returned, overlapped, writeBackDone>>

NextWebhook ==
  \/ \E r \in Slots, ev \in WebhookEvents : DeliverWebhook(r, ev)
  \/ \E r \in Slots, result \in Outcomes, customer \in Customers :
       CustomerReturns(r, result, customer)
  \/ \E r \in Slots, result \in Outcomes : RevenueReturns(r, result)
  \/ \E r \in Slots : Finish(r)

SpecWebhook == InitRouter /\ [][NextWebhook]_vars

\* ------------------------------------------------------------ properties
StripeEntries(rq) == {k \in 1..Len(rq.log) : rq.log[k].call \in StripeCalls}
NoStripeRequest(rq) == StripeEntries(rq) = {}
PatchEntries(rq) == {k \in 1..Len(rq.log) : rq.log[k].call = "patch"}
Failed(rq, calls) ==
  \E k \in 1..Len(rq.log) : rq.log[k].call \in calls /\ rq.log[k].result # "ok"
\* ticket i of the request was taken through the whole creation sequence.
CreatedFor(rq, i) ==
  \A c \in StripeCalls :
    \E k \in 1..Len(rq.log) :
      rq.log[k].call = c /\ rq.log[k].ticket = i /\ rq.log[k].result = "ok"
EventDone(rq) == rq.route = "event" /\ rq.pc = "done"
EventRead(rq) == rq.route = "event" /\ Len(rq.log) > 0 /\ rq.log[1].result = "ok"
LinksIn(twl) == {twl[i].ticket_link : i \in 1..Len(twl)} \ {NoLink}
ExistingLinks ==
  {EventPreLink, TicketOwnLink} \cup {StripeURL(l.id) : l \in stripe.payment_links}

\* C1: a payment link enters paymentLinkCache only once Stripe has created it
\* (or it is a link read from Notion), so a request that is still creating
\* leaves the cache as it was and a second request for the same ticket is not
\* stopped by it; the race itself is the state C1_TwoLinksForOneTicket.
C1_CacheHoldsOnlyCreatedLinks ==
  \A i \in Instances : \A k \in DOMAIN paymentLinkCache[i] :
    paymentLinkCache[i][k] \in ExistingLinks

\* Two requests of one instance, same event with one priced ticket and no
\* link anywhere, each went through product, price and payment link: two
\* products of one name and two different payment links.
C1_TwoLinksForOneTicket ==
  \E a, b \in Slots :
    /\ a # b
    /\ req[a].inst = req[b].inst
    /\ \A r \in {a, b} :
         /\ req[r].route = "event" /\ req[r].pc \in {"patch", "done"}
         /\ req[r].event_link = NoLink
         /\ Len(req[r].tks) = 1
         /\ CreatedFor(req[r], 1)
    /\ req[a].ticketsWithLinks[1].ticket_link # req[b].ticketsWithLinks[1].ticket_link
    /\ Cardinality({p \in stripe.products : p.name = tickets[1].name}) = 2
    /\ Cardinality(stripe.payment_links) = 2

\* C2: when requests run one after another, all URLs getOrCreate returns for
\* one key on one instance are the same URL, and no Stripe request is awaited
\* for a key a URL was already returned for.
C2_SequentialCallsReuseLink ==
  ~overlapped =>
    \A i \in Instances :
      /\ \A p, q \in returned[i] : p[1] = q[1] => p[2] = q[2]
      /\ \A r \in Slots :
           (req[r].pc \in StripeCalls /\ req[r].inst = i) =>
             ~\E p \in returned[i] : p[1] = CacheKey(req[r].tks[req[r].idx])

\* The second of two sequential requests on one instance reads an Event
\* without link (the first write-back failed), makes no Stripe request and
\* gives its ticket the link the first request created.
C2_SecondCallServedFromCache ==
  \E r \in Slots :
    /\ ~overlapped
    /\ req[r].route = "event" /\ req[r].serial = 2 /\ req[r].pc = "patch"
    /\ req[r].event_link = NoLink
    /\ NoStripeRequest(req[r])
    /\ Len(req[r].ticketsWithLinks) > 0
    /\ req[r].ticketsWithLinks[1].ticket_link = StripeURL(<<1, 1>>)

\* C3: a page view that starts after a write-back of the ticket link has
\* succeeded makes no Stripe product, price or payment-link request.
C3_NoCreationAfterWriteBack ==
  \A r \in Slots : req[r].startedAfterWriteBack => NoStripeRequest(req[r])

\* A later view on a fresh instance of an event whose created link was written
\* back: priced ticket, empty memo, page served with the stored link.
C3_LaterViewOnFreshInstance ==
  \E r \in Slots :
    /\ EventDone(req[r]) /\ req[r].startedAfterWriteBack
    /\ req[r].inst = 2 /\ req[r].serial = 2
    /\ req[r].event_link = StripeURL(<<1, 1>>)
    /\ Len(req[r].tks) > 0 /\ IsPriced(req[r].tks[1])
    /\ req[r].tks[1].stripe_payment_link = NoLink
    /\ NoStripeRequest(req[r])
    /\ req[r].response.offered = {StripeURL(<<1, 1>>)}

\* C4: per ticket the Stripe requests go product, price, payment link; a price
\* request follows a product request that succeeded, a payment-link request a
\* price request that succeeded, and after a failed request nothing more is
\* sent for that ticket and the ticket gets no link (null was returned).
C4_CreationOrder ==
  \A r \in Slots :
    LET log == req[r].log IN
    \A k \in StripeEntries(req[r]) :
      /\ log[k].call = "product" =>
           \A j \in 1..(k - 1) : log[j].ticket # log[k].ticket
      /\ log[k].call = "price" =>
           /\ log[k - 1].call = "product" /\ log[k - 1].result = "ok"
           /\ log[k - 1].ticket = log[k].ticket
      /\ log[k].call = "payment_link" =>
           /\ log[k - 1].call = "price" /\ log[k - 1].result = "ok"
           /\ log[k - 1].ticket = log[k].ticket
      /\ log[k].result # "ok" =>
           /\ \A j \in (k + 1)..Len(log) : log[j].ticket # log[k].ticket
           /\ Len(req[r].ticketsWithLinks) >= log[k].ticket
           /\ req[r].ticketsWithLinks[log[k].ticket].ticket_link = NoLink

\* The price request of a ticket failed after its product was created: no
\* payment-link request follows.
C4_PriceFailedAfterProduct ==
  \E r \in Slots :
    /\ EventDone(req[r])
    /\ \E k \in StripeEntries(req[r]) :
         req[r].log[k].call = "price" /\ req[r].log[k].result = "error"

\* C5: a request that read an Event carrying a ticket link makes no Stripe
\* request.
C5_ExistingLinkNoStripe ==
  \A r \in Slots :
    (req[r].route = "event" /\ req[r].event_link # NoLink) => NoStripeRequest(req[r])

\* An Event with a link an editor set, a priced ticket without own link, an
\* empty memo: the page is served with that link.
C5_LinkedEventWithPricedTicket ==
  \E r \in Slots :
    /\ EventDone(req[r]) /\ req[r].event_link = EventPreLink
    /\ Len(req[r].tks) > 0 /\ IsPriced(req[r].tks[1])
    /\ req[r].tks[1].stripe_payment_link = NoLink
    /\ req[r].ticketsWithLinks[1].ticket_link = EventPreLink

\* C6: once the event was read, the response is the event page with status
\* 200, whatever failed afterwards.
C6_PageRenderedDespiteFailures ==
  \A r \in Slots :
    (EventDone(req[r]) /\ EventRead(req[r])) =>
      (req[r].response.status = 200 /\ req[r].response.page = "event")

\* The write-back threw and the page was rendered all the same.
C6_WriteBackThrew ==
  \E r \in Slots :
    /\ EventDone(req[r])
    /\ \E k \in PatchEntries(req[r]) : req[r].log[k].result = "throw"
    /\ req[r].response.status = 200

\* C7 as stated: for an event without ticket link, a failed Stripe creation or
\* a failed write-back leaves no payment link on the rendered page.
C7_NoPurchaseAfterFailure ==
  \A r \in Slots :
    ( /\ EventDone(req[r]) /\ req[r].event_link = NoLink
      /\ \/ Failed(req[r], StripeCalls)
         \/ \E k \in PatchEntries(req[r]) : req[r].log[k].result = "throw" )
    => ( /\ req[r].ticketLink = NoLink
         /\ LinksIn(req[r].ticketsWithLinks) = {} )

\* C7 amended: the ticket whose creation failed gets no link, and with no link
\* on any ticket event.ticket_link is empty and nothing is offered; a failed
\* write-back leaves the link it tried to store on the page.
C7_FailedTicketHasNoLink ==
  \A r \in Slots :
    (EventDone(req[r]) /\ req[r].event_link = NoLink) =>
      /\ \A k \in StripeEntries(req[r]) :
           req[r].log[k].result # "ok" =>
             req[r].ticketsWithLinks[req[r].log[k].ticket].ticket_link = NoLink
      /\ LinksIn(req[r].ticketsWithLinks) = {} =>
           (req[r].ticketLink = NoLink /\ req[r].response.offered = {})
      /\ \A k \in PatchEntries(req[r]) :
           req[r].log[k].result # "ok" =>
             /\ req[r].ticketLink = req[r].log[k].value
             /\ req[r].log[k].value \in req[r].response.offered

\* The creation for the only priced ticket failed: the page lists the ticket
\* without purchase action.
C7_CreationFailedPageWithoutLink ==
  \E r \in Slots :
    /\ EventDone(req[r]) /\ req[r].event_link = NoLink
    /\ Failed(req[r], StripeCalls)
    /\ req[r].response.section = "options"
    /\ req[r].response.offered = {}

\* C8: tickets exist and none is priced: the event is free, no Stripe request
\* and no write to the Event is made, and the free-event message is rendered
\* without purchase link.
C8_FreeEvent ==
  \A r \in Slots :
    ( /\ EventDone(req[r]) /\ EventRead(req[r])
      /\ Len(req[r].tks) > 0
      /\ \A i \in 1..Len(req[r].tks) : ~(req[r].tks[i].price > 0) )
    => ( /\ req[r].isFreeEvent
         /\ NoStripeRequest(req[r])
         /\ PatchEntries(req[r]) = {}
         /\ req[r].response.section = "free"
         /\ req[r].response.offered = {} )

\* A free ticket on an Event that carries a ticket link.
C8_FreeTicketOnLinkedEvent ==
  \E r \in Slots :
    /\ EventDone(req[r]) /\ req[r].event_link = EventPreLink
    /\ Len(req[r].tks) > 0 /\ req[r].isFreeEvent
    /\ req[r].response.section = "free"

\* C9: a request in which some ticket got a link has issued, when it responds,
\* exactly one PATCH of the Event, with the link of the first such ticket.
C9_OneWriteBackOfFirstLink ==
  \A r \in Slots :
    LET twl == req[r].ticketsWithLinks
        linked == {i \in 1..Len(twl) : twl[i].ticket_link # NoLink}
    IN (EventDone(req[r]) /\ linked # {}) =>
         /\ Cardinality(PatchEntries(req[r])) = 1
         /\ \A k \in PatchEntries(req[r]) : \A i \in linked :
              (\A j \in linked : i <= j) => req[r].log[k].value = twl[i].ticket_link

\* Two tickets with two different links: the first one's was written.
C9_TwoLinkedTickets ==
  \E r \in Slots :
    LET twl == req[r].ticketsWithLinks IN
    /\ EventDone(req[r]) /\ Len(twl) = 2
    /\ twl[1].ticket_link # NoLink /\ twl[2].ticket_link # NoLink
    /\ twl[1].ticket_link # twl[2].ticket_link
    /\ \E k \in PatchEntries(req[r]) : req[r].log[k].value = twl[1].ticket_link

Awaiting(rq, c) == rq.pc = c
Entries(rq, c) == {k \in 1..Len(rq.log) : rq.log[k].call = c}
GuestbookDone(rq) == rq.route = "guestbook" /\ rq.pc = "done"
ThanksTarget == "/events/:id?guestbook=thanks"
SchemaErrorTarget == "/events/:id?guestbook=error&reason=schema"

\* C11: the 'Events Attended' PATCH is awaited or logged only as the call right
\* after a Guest creation whose response carried an id; when Guest creation
\* returned an error object the PATCH is never issued.
C11_RelationPatchOnlyAfterGuestCreated ==
  \A r \in Slots :
    LET rq == req[r] IN
    rq.route = "guestbook" =>
      /\ Awaiting(rq, "updateAttended") =>
           /\ Len(rq.log) = 1
           /\ rq.log[1].call = "addGuest" /\ rq.log[1].result = "created"
      /\ \A k \in Entries(rq, "updateAttended") :
           /\ k = 2
           /\ rq.log[1].call = "addGuest" /\ rq.log[1].result = "created"
      /\ rq.guest \in {"error_schema", "error_other", "no_id"} =>
           (~Awaiting(rq, "updateAttended") /\ Entries(rq, "updateAttended") = {})

\* Guest creation returned an error object for a submission with a message:
\* the request ended after that single call.
C11_GuestCreationErrorEndsCalls ==
  \E r \in Slots :
    /\ GuestbookDone(req[r]) /\ req[r].form.message
    /\ req[r].guest = "error_other"
    /\ Len(req[r].log) = 1

\* C12 as stated: a Comment creation call is issued if and only if the message
\* is non-empty and the Guest creation response carried an id, and it comes
\* after the relation patch attempt.
C12_CommentIffMessageAndId ==
  \A r \in Slots :
    LET rq == req[r] IN
    (GuestbookDone(rq) /\ Len(rq.log) > 0) =>
      /\ (Entries(rq, "addComment") # {}) <=> (rq.form.message /\ rq.guest = "created")
      /\ \A k \in Entries(rq, "addComment") :
           k = 3 /\ rq.log[2].call = "updateAttended"

\* C12 amended: the Comment creation request is issued if and only if the
\* message is non-empty, the Guest creation response carried an id and the
\* comments database id is configured; it follows the relation patch attempt,
\* whatever that attempt's outcome.
C12_CommentIffMessageIdAndDatabase ==
  \A r \in Slots :
    LET rq == req[r] IN
    /\ (GuestbookDone(rq) /\ Len(rq.log) > 0) =>
         ((Entries(rq, "addComment") # {})
            <=> (rq.form.message /\ rq.guest = "created" /\ rq.env.commentsDb))
    /\ (rq.route = "guestbook" /\ Awaiting(rq, "addComment")) =>
         /\ rq.form.message /\ rq.guest = "created" /\ rq.env.commentsDb
         /\ Len(rq.log) = 2 /\ rq.log[2].call = "updateAttended"
    /\ rq.route = "guestbook" =>
         \A k \in Entries(rq, "addComment") :
           k = 3 /\ rq.log[2].call = "updateAttended"

\* The relation patch failed and the Comment was created all the same.
C12_CommentAfterFailedPatch ==
  \E r \in Slots :
    /\ GuestbookDone(req[r]) /\ Len(req[r].log) = 3
    /\ req[r].log[2].call = "updateAttended" /\ req[r].log[2].result # "ok"
    /\ req[r].log[3].call = "addComment" /\ req[r].log[3].result = "ok"

\* C13 as stated: Guest created, relation patch failed: the response is a 303
\* redirect whose target carries guestbook=thanks.
C13_ThanksDespitePatchFailure ==
  \A r \in Slots :
    LET rq == req[r] IN
    ( /\ GuestbookDone(rq) /\ rq.guest = "created"
      /\ \E k \in Entries(rq, "updateAttended") : rq.log[k].result # "ok" )
    => (rq.response.status = 303 /\ rq.response.page = ThanksTarget)

\* C13 amended: the response is a 303 redirect, to the event page with
\* guestbook=thanks when the request URL carries no redirect parameter and to
\* that parameter's value when it carries one.
C13_RedirectDespitePatchFailure ==
  \A r \in Slots :
    LET rq == req[r] IN
    ( /\ GuestbookDone(rq) /\ rq.guest = "created"
      /\ \E k \in Entries(rq, "updateAttended") : rq.log[k].result # "ok" )
    => /\ rq.response.status = 303
       /\ rq.response.page = IF rq.form.redirect THEN "?redirect=" ELSE ThanksTarget

\* The relation patch threw, no redirect parameter: redirected with thanks.
C13_PatchThrewStillThanks ==
  \E r \in Slots :
    /\ GuestbookDone(req[r]) /\ req[r].guest = "created" /\ ~req[r].form.redirect
    /\ \E k \in Entries(req[r], "updateAttended") : req[r].log[k].result = "throw"
    /\ req[r].response.status = 303 /\ req[r].response.page = ThanksTarget

\* C14: the response is determined by the request and the Guest creation result:
\* whatever the relation patch and the Comment creation did, a request with a
\* given redirect parameter and Guest creation result gets one response.
C14_ResponseIndependentOfSecondaryCalls ==
  \A r \in Slots :
    LET rq == req[r] IN
    (GuestbookDone(rq) /\ rq.guest \in {"created", "no_id", "error_schema", "error_other"}) =>
      /\ rq.response.status = IF rq.guest = "error_other" THEN 500 ELSE 303
      /\ rq.response.page =
           CASE rq.guest = "error_other" -> "Notion API Error (Guestbook)"
             [] rq.guest = "error_schema" -> SchemaErrorTarget
             [] OTHER -> IF rq.form.redirect THEN "?redirect=" ELSE ThanksTarget

\* The Comment creation threw after a successful relation patch: same redirect.
C14_CommentThrewSameResponse ==
  \E r \in Slots :
    /\ GuestbookDone(req[r]) /\ Len(req[r].log) = 3
    /\ req[r].log[2].result = "ok"
    /\ req[r].log[3].call = "addComment" /\ req[r].log[3].result = "throw"
    /\ req[r].response.status = 303

\* C15 as stated: Guest creation returned an error object: status 500 with a
\* debug page, never a redirect.
C15_GuestErrorGives500 ==
  \A r \in Slots :
    (GuestbookDone(req[r]) /\ req[r].guest \in {"error_schema", "error_other"}) =>
      (req[r].response.status = 500 /\ req[r].response.page = "Notion API Error (Guestbook)")

\* C15 amended: an error object that does not report a missing property gives
\* status 500 with the debug page; one whose message says 'not a property that
\* exists' gives a 303 redirect to the event page with guestbook=error&reason=schema.
C15_GuestErrorBySchema ==
  \A r \in Slots :
    LET rq == req[r] IN
    /\ (GuestbookDone(rq) /\ rq.guest = "error_other") =>
         (rq.response.status = 500 /\ rq.response.page = "Notion API Error (Guestbook)")
    /\ (GuestbookDone(rq) /\ rq.guest = "error_schema") =>
         (rq.response.status = 303 /\ rq.response.page = SchemaErrorTarget)

\* A schema-mismatch error object: redirected, not a debug page.
C15_SchemaErrorRedirected ==
  \E r \in Slots :
    /\ GuestbookDone(req[r]) /\ req[r].guest = "error_schema"
    /\ req[r].response.status = 303

\* ------------------------------------------------- event read properties
\* C16: when Notion has no page for the id, the response is 404 and the event
\* read is the only outbound call: no ticket query, no Stripe request, no PATCH.
C16_NotFoundGives404 ==
  \A r \in Slots :
    LET rq == req[r] IN
    (rq.route = "event" /\ Len(rq.log) > 0 /\ rq.log[1].result = "not_found") =>
      /\ rq.pc = "done"
      /\ rq.response.status = 404 /\ rq.response.page = "Event Not Found"
      /\ Len(rq.log) = 1

\* The event's id is unknown to Notion while priced tickets point to it.
C16_NotFoundWithPricedTickets ==
  \E r \in Slots :
    /\ EventDone(req[r]) /\ req[r].log[1].result = "not_found"
    /\ Len(tickets) > 0 /\ IsPriced(tickets[1])
    /\ req[r].response.status = 404

\* C17: when Notion answers the event read with an error object that is not a
\* not-found (unauthorized, rate_limited, ...), the response is status 500 with
\* a debug page, not 404.
C17_ErrorObjectGives500 ==
  \A r \in Slots :
    (EventDone(req[r]) /\ req[r].log[1].call = "getEvent" /\ req[r].log[1].result = "error") =>
      (req[r].response.status = 500 /\ req[r].response.page = "Error fetching event")

\* ------------------------------------------------------ router properties
\* The outbound calls each handler makes.
CallsOf(route) ==
  CASE route = "catalog" -> {"getAllEvents"}
    [] route = "guestbook" -> {"addGuest", "updateAttended", "addComment"}
    [] route = "event" -> {"getEvent", "getTickets", "patch"} \cup StripeCalls
    [] OTHER -> {}
NonEmptyEventId(path) == Len(path) = 2 /\ path[1] = "events" /\ path[2] # ""

\* C18 as stated: GET on '/' or '/events' goes to the catalog, POST on
\* '/api/guestbook' to the guestbook writer, GET on '/events/<non-empty id>' to
\* the event page; every other path/method combination gets 404 and makes no
\* outbound call.
C18_DispatchByPathAndMethod ==
  \A r \in Slots :
    LET rq == req[r] IN
    rq.route # "none" =>
      /\ rq.route =
           CASE rq.method = "GET" /\ rq.path \in {NoPath, <<"events">>} -> "catalog"
             [] rq.method = "POST" /\ rq.path = GuestbookPath -> "guestbook"
             [] rq.method = "GET" /\ NonEmptyEventId(rq.path) -> "event"
             [] OTHER -> "notfound"
      /\ \A k \in 1..Len(rq.log) : rq.log[k].call \in CallsOf(rq.route)
      /\ rq.route = "notfound" =>
           (rq.pc = "done" /\ rq.response = NotFound /\ rq.log = <<>>)

\* C18 amended: the method is looked at for the guestbook only: any method on
\* '/' or '/events' goes to the catalog, POST on '/api/guestbook' to the
\* guestbook writer, any method on '/events/<non-empty id>' to the event page;
\* every other combination gets 404 and makes no outbound call.
C18_DispatchByPath ==
  \A r \in Slots :
    LET rq == req[r] IN
    rq.route # "none" =>
      /\ rq.route =
           CASE rq.path \in {NoPath, <<"events">>} -> "catalog"
             [] rq.method = "POST" /\ rq.path = GuestbookPath -> "guestbook"
             [] NonEmptyEventId(rq.path) -> "event"
             [] OTHER -> "notfound"
      /\ \A k \in 1..Len(rq.log) : rq.log[k].call \in CallsOf(rq.route)
      /\ rq.route = "notfound" =>
           (rq.pc = "done" /\ rq.response = NotFound /\ rq.log = <<>>)

\* A GET on '/api/guestbook' was answered 404 without any outbound call.
C18_GetOnGuestbookNotFound ==
  \E r \in Slots :
    /\ req[r].method = "GET" /\ req[r].path = GuestbookPath
    /\ req[r].pc = "done" /\ req[r].response.status = 404
    /\ req[r].log = <<>>

\* C19: no debug page holds the full value of the Notion token or of the Stripe
\* secret key: what is printed of a secret is a fragment of it.
C19_NoFullSecretInDebugPage ==
  \A r \in Slots :
    req[r].pc = "done" =>
      \A v \in DebugDetails(req[r].response.page, req[r].env) :
        \A secret \in {NotionToken, StripeSecretKey} :
          ~\E i \in 1..Len(v) :
              /\ i + Len(secret) - 1 <= Len(v)
              /\ SubSeq(v, i, i + Len(secret) - 1) = secret

\* C20: a catalog request makes exactly one query of the Events database,
\* whatever has_more says, and lists no more events than one result page holds.
C20_OneCatalogQuery ==
  \A r \in Slots :
    LET rq == req[r] IN
    rq.route = "catalog" =>
      /\ rq.pc = "getAllEvents" => rq.log = <<>>
      /\ rq.pc = "done" =>
           /\ Len(rq.log) = 1 /\ rq.log[1].call = "getAllEvents"
           /\ rq.listed <= PageSize

\* The database holds more events than one page: the catalog lists the first
\* page only.
C20_MoreEventsThanOnePage ==
  \E r \in Slots :
    /\ req[r].route = "catalog" /\ req[r].pc = "done"
    /\ req[r].has_more /\ req[r].listed = PageSize
    /\ req[r].response.page = "catalog"

\* ------------------------------------------- ticket and memo properties
\* C24: a request that read an Event carrying a ticket link issues no PATCH of
\* the Event, so the stored link stays what it was.
C24_NoWriteWhenEventLinked ==
  \A r \in Slots :
    (req[r].route = "event" /\ req[r].event_link # NoLink) =>
      (req[r].pc # "patch" /\ PatchEntries(req[r]) = {})

\* C25: for an event whose tickets all have different positive prices, a
\* payment link Stripe created that is attached to a ticket in ticketsWithLinks
\* was created for that ticket, not for another ticket of the event.
C25_TicketKeepsOwnLink ==
  \A r \in Slots :
    LET rq == req[r] IN
    ( /\ rq.route = "event" /\ Len(rq.tks) >= 2
      /\ \A i, j \in 1..Len(rq.tks) :
           IsPriced(rq.tks[i]) /\ (i # j => rq.tks[i].price # rq.tks[j].price) )
    => \A i \in 1..Len(rq.ticketsWithLinks) :
         LET l == rq.ticketsWithLinks[i].ticket_link IN
         IF l \in {NoLink, EventPreLink, TicketOwnLink} THEN TRUE
         ELSE l[2][2] = i

\* C28: a step changes paymentLinkCache only by storing non-null links that
\* getOrCreate returns in that step, a step in which a call failed leaves it
\* unchanged, and an entry is never removed or given another value.
C28_CacheEntriesStable ==
  [][\A i \in Instances :
       /\ \A k \in DOMAIN paymentLinkCache'[i] :
            (k \notin DOMAIN paymentLinkCache[i]) =>
              /\ paymentLinkCache'[i][k] # NoLink
              /\ <<k, paymentLinkCache'[i][k]>> \in returned'[i]
       /\ faults' # faults => paymentLinkCache'[i] = paymentLinkCache[i]
       /\ \A k \in DOMAIN paymentLinkCache[i] :
            /\ k \in DOMAIN paymentLinkCache'[i]
            /\ paymentLinkCache'[i][k] = paymentLinkCache[i][k]]_vars

\* C30: once the ticket loop of an event with a priced ticket has run,
\* ticketsWithLinks has one entry per ticket of the query result, in its order;
\* while the loop waits for Stripe it has one entry per ticket already handled.
C30_OneEntryPerTicket ==
  \A r \in Slots :
    LET rq == req[r] IN
    rq.route = "event" =>
      /\ \A i \in 1..Len(rq.ticketsWithLinks) : rq.ticketsWithLinks[i].id = i
      /\ rq.pc \in StripeCalls => Len(rq.ticketsWithLinks) = rq.idx - 1
      /\ rq.twlSet =>
           /\ hasValidPricedTicket(rq.tks)
           /\ Len(rq.ticketsWithLinks) = Len(rq.tks)
      /\ (rq.pc = "done" /\ hasValidPricedTicket(rq.tks)) => rq.twlSet

\* The creation for the first ticket failed and the second ticket got its link.
C30_FailureThenCreation ==
  \E r \in Slots :
    LET rq == req[r] IN
    /\ EventDone(rq) /\ Len(rq.tks) = 2 /\ rq.twlSet
    /\ Failed(rq, StripeCalls)
    /\ rq.ticketsWithLinks[1].ticket_link = NoLink
    /\ CreatedFor(rq, 2)
    /\ rq.ticketsWithLinks[2].ticket_link = StripeURL(<<rq.serial, 2>>)

\* ------------------------------------------- guestbook response properties
\* C26: the guestbook handler answers with the success redirect only when the
\* Guest creation response carried a record id.
C26_ThanksOnlyWithId ==
  \A r \in Slots :
    ( /\ GuestbookDone(req[r])
      /\ req[r].response \in {Redirect(ThanksTarget), Redirect("?redirect=")} )
    => req[r].guest = "created"

\* C27: a request that fetch has finished handling ended with an HTTP response;
\* no exception left the handler.
C27_EveryRequestAnswered ==
  \A r \in Slots :
    req[r].pc = "done" => req[r].response \notin {Uncaught, NoResponse}

\* ------------------------------------------------- Image property properties
\* C21: the image URL both readers extract is a string, never a raised error:
\* the value of the shape the property's type selects, and the empty string
\* when the property is absent, when that shape holds no value, and for a
\* files property without files.
C21_ImageIsString ==
  \A r \in Slots :
    LET rq == req[r]
        p == rq.imageProperty
    IN (rq.route \in Readers /\ rq.pc = "done") =>
      /\ rq.image \notin {Undefined, TypeError}
      /\ ~p.present => rq.image = ""
      /\ (p.present /\ p.type \notin p.has \cup {"url"}) => rq.image = ""
      /\ (p.type = "files" /\ Len(p.files) = 0) => rq.image = ""
      /\ p.type = "url" => rq.image = (IF Truthy(p.url) THEN p.url ELSE "")
      /\ (p.type = "files" /\ Len(p.files) > 0) =>
           rq.image \in {p.files[1].external_url, p.files[1].file_url, ""} \ {Undefined}
      /\ (p.type = "files" /\ Len(p.files) > 0 /\ p.files[1].type = "external") =>
           rq.image = (IF Truthy(p.files[1].external_url)
                         THEN p.files[1].external_url ELSE "")
      /\ (p.type = "files" /\ Len(p.files) > 0 /\ p.files[1].type = "file") =>
           rq.image = (IF Truthy(p.files[1].file_url) THEN p.files[1].file_url ELSE "")
      /\ (p.type = "rich_text" /\ Len(p.rich_text) > 0) =>
           rq.image = p.rich_text[1].plain_text
      /\ (p.type = "text" /\ "text" \in p.has) =>
           rq.image = (IF Truthy(p.text) THEN p.text ELSE "")

\* getEventFromNotion read a page whose Image property is of type files and
\* holds no file.
C21_FilesWithoutFile ==
  \E r \in Slots :
    /\ req[r].route = "getEventFromNotion" /\ req[r].pc = "done"
    /\ req[r].imageProperty.type = "files"
    /\ "files" \in req[r].imageProperty.has
    /\ req[r].imageProperty.files = <<>>
    /\ req[r].image = ""

\* ------------------------------------------------------ webhook properties
WebhookDone(rq) == rq.route = "webhook" /\ rq.pc = "done"

\* C22: handleStripeWebhook calls Stripe or the document store only for an
\* event of type 'checkout.session.completed' whose metadata has revenue_object
\* 'true'; for every other event it returns success: true without any call.
C22_RevenueOnlyWhenRequested ==
  \A r \in Slots :
    LET rq == req[r] IN
    rq.route = "webhook" =>
      IF rq.hook.type = CompletedType /\ rq.hook.metadata
         /\ rq.hook.revenue_object = "true"
        THEN TRUE
        ELSE /\ rq.pc = "done" /\ rq.log = <<>> /\ rq.result.success
             /\ \A rec \in notionDb.revenue : rec.id # rq.serial

\* A completed checkout without the revenue flag was answered.
C22_CompletedWithoutFlag ==
  \E r \in Slots :
    /\ WebhookDone(req[r])
    /\ req[r].hook.type = CompletedType
    /\ req[r].hook.metadata /\ req[r].hook.revenue_object = "false"
    /\ req[r].result.success /\ req[r].log = <<>>

\* C23: when the customer could not be fetched (no customer id, an error
\* object, an exception) the Revenue record creation is still requested, and
\* the buyer's email and name are written only for a fetched customer of an
\* event with attach_buyer 'true'.
C23_RevenueDespiteCustomerFailure ==
  \A r \in Slots :
       LET rq == req[r] IN
       (rq.route = "webhook" /\ WantsRevenue(rq.hook) /\ rq.hook.type = CompletedType) =>
         /\ rq.pc \in {"getCustomer", "createRevenue", "done"}
         /\ rq.pc = "done" => Entries(rq, "createRevenue") # {}
         /\ (~rq.hook.customer \/ Failed(rq, {"getCustomer"})) => ~rq.customer.fetched
         /\ \A rec \in notionDb.revenue :
              (rec.id = rq.serial /\ rec.buyer # {}) =>
                /\ rq.hook.attach_buyer = "true"
                /\ \E k \in Entries(rq, "getCustomer") : rq.log[k].result = "ok"

\* The customer fetch threw and the Revenue record was created without buyer.
C23_CustomerFetchThrew ==
  \E r \in Slots :
    /\ WebhookDone(req[r])
    /\ \E k \in Entries(req[r], "getCustomer") : req[r].log[k].result = "throw"
    /\ req[r].result.success
    /\ \E rec \in notionDb.revenue : rec.id = req[r].serial /\ rec.buyer = {}

\* C29: however often one completed checkout session is delivered, at most one
\* Revenue record exists for it.
C29_OneRevenuePerSession ==
  \A s \in Sessions : Cardinality({rec \in notionDb.revenue : rec.session = s}) <= 1

====
